---- MODULE Spec2Model ----
(***************************************************************************)
(* A* search on the 8-puzzle (src/main.py, src/puzzle_state.py).           *)
(*                                                                         *)
(* A grid is a 3x3 matrix <<row0, row1, row2>>; the code indexes rows and  *)
(* columns from 0, so Cell(p, i, j) reads p[i][j] with the code's indices. *)
(*                                                                         *)
(* Two specifications:                                                     *)
(*   Spec    the body of the caller's loop over puzzles (main.py:239-252): *)
(*           a_star with the Hamming heuristic, then a_star with the       *)
(*           Manhattan heuristic, one step per iteration of a_star's while *)
(*           loop;                                                         *)
(*   SpecFn  the pure functions (heuristics, generate_successors,          *)
(*           find_zero) applied to grids drawn from a bounded              *)
(*           neighbourhood of seed grids;                                  *)
(*   SpecReach  every grid that blank moves reach from the goal and from   *)
(*           a grid with two tiles exchanged, each tested with             *)
(*           is_solvable.                                                  *)
(***************************************************************************)
EXTENDS Integers, Sequences, FiniteSets, TLC

(***************************************************************************)
(* Bounds of the model.                                                    *)
(***************************************************************************)
\* start grids of a_star: every grid within MaxDepth blank moves of the goal
MaxDepth == 5
\* grids visited by SpecFn: within MaxMoves applications of a successor
MaxMoves == 7

(***************************************************************************)
(* Grids.                                                                  *)
(***************************************************************************)
Idx == 0 .. 2

Cell(p, i, j) == p[i + 1][j + 1]

Abs(x) == IF x < 0 THEN -x ELSE x

\* main.py:23-34
get_goal_state_puzzle == << <<0, 1, 2>>, <<3, 4, 5>>, <<6, 7, 8>> >>

IsPermutation(p) == \A v \in 0 .. 8 : \E i \in Idx, j \in Idx : Cell(p, i, j) = v

\* str(puzzle): Python's repr of a list of lists of ints
StrRow(r) == "[" \o ToString(r[1]) \o ", " \o ToString(r[2]) \o ", " \o ToString(r[3]) \o "]"

Str(p) == "[" \o StrRow(p[1]) \o ", " \o StrRow(p[2]) \o ", " \o StrRow(p[3]) \o "]"

(***************************************************************************)
(* Heuristics.                                                             *)
(***************************************************************************)
\* the 9 cells in the order of the nested loops for i ... for j ...
CellOrder == [n \in 1 .. 9 |-> << (n - 1) \div 3, (n - 1) % 3 >>]

RECURSIVE SumTerms(_, _, _)
\* distance = 0; for each cell in loop order: distance += terms[cell]
SumTerms(terms, n, acc) ==
  IF n > 9 THEN acc ELSE SumTerms(terms, n + 1, acc + terms[n])

\* main.py:78-81, the inner loops over (k, l) for one cell (i, j)
ManhattanInner(puzzle, goal_state, i, j) ==
  SumTerms([n \in 1 .. 9 |->
              LET k == CellOrder[n][1]
                  l == CellOrder[n][2]
              IN IF Cell(goal_state, k, l) = Cell(puzzle, i, j)
                 THEN Abs(k - i) + Abs(j - l) ELSE 0], 1, 0)

\* skips the blank as well as the cell where the goal holds the blank
calc_manhattan_skip_blank(puzzle, goal_state) ==
  SumTerms([n \in 1 .. 9 |->
              LET i == CellOrder[n][1]
                  j == CellOrder[n][2]
              IN IF /\ Cell(goal_state, i, j) # Cell(puzzle, i, j)
                    /\ Cell(goal_state, i, j) # 0
                    /\ Cell(puzzle, i, j) # 0
                 THEN ManhattanInner(puzzle, goal_state, i, j)
                 ELSE 0], 1, 0)

\* main.py:60-82
calc_manhattan_distance(puzzle, goal_state) ==
  SumTerms([n \in 1 .. 9 |->
              LET i == CellOrder[n][1]
                  j == CellOrder[n][2]
              IN IF /\ Cell(goal_state, i, j) # Cell(puzzle, i, j)
                    /\ Cell(goal_state, i, j) # 0
                 THEN ManhattanInner(puzzle, goal_state, i, j)
                 ELSE 0], 1, 0)

\* compares with the transposed goal cell goal_state[j][i]
calc_hamming_transposed(puzzle, goal_state) ==
  SumTerms([n \in 1 .. 9 |->
              LET i == CellOrder[n][1]
                  j == CellOrder[n][2]
              IN IF Cell(puzzle, i, j) # Cell(goal_state, j, i) /\ Cell(puzzle, i, j) # 0
                 THEN 1 ELSE 0], 1, 0)

\* main.py:85-104
calc_hamming_distance(puzzle, goal_state) ==
  SumTerms([n \in 1 .. 9 |->
              LET i == CellOrder[n][1]
                  j == CellOrder[n][2]
              IN IF Cell(puzzle, i, j) # Cell(goal_state, i, j) /\ Cell(puzzle, i, j) # 0
                 THEN 1 ELSE 0], 1, 0)

HeuristicNames == {"hamming", "manhattan"}

\* the heuristic argument of a_star, applied
Heuristic(name, puzzle, goal_state) ==
  IF name = "hamming" THEN calc_hamming_distance(puzzle, goal_state)
  ELSE calc_manhattan_distance(puzzle, goal_state)

(***************************************************************************)
(* Successor generation.                                                   *)
(***************************************************************************)
\* what find_zero returns when no cell holds 0 (the function falls off its end)
NoneValue == << >>

\* main.py:107-126: the first cell, in row-major order, that holds 0
find_zero(puzzle) ==
  IF \E n \in 1 .. 9 : Cell(puzzle, CellOrder[n][1], CellOrder[n][2]) = 0
  THEN LET n == CHOOSE m \in 1 .. 9 :
                  /\ Cell(puzzle, CellOrder[m][1], CellOrder[m][2]) = 0
                  /\ \A q \in 1 .. m - 1 :
                       Cell(puzzle, CellOrder[q][1], CellOrder[q][2]) # 0
       IN CellOrder[n]
  ELSE NoneValue

\* "up" replaced by a second "down"
directions_down_twice == << <<1, 0>>, <<1, 0>>, <<0, -1>>, <<0, 1>> >>

\* the last direction is a diagonal
directions_diagonal == << <<-1, 0>>, <<1, 0>>, <<0, -1>>, <<1, 1>> >>

\* main.py:144
directions == << <<-1, 0>>, <<1, 0>>, <<0, -1>>, <<0, 1>> >>

\* main.py:148-153: copy the rows, then swap the cells at positions a and b
SwapCells(puzzle, a, b) ==
  [r \in 1 .. 3 |-> [c \in 1 .. 3 |->
     IF <<r - 1, c - 1>> = a THEN Cell(puzzle, b[1], b[2])
     ELSE IF <<r - 1, c - 1>> = b THEN Cell(puzzle, a[1], a[2])
     ELSE puzzle[r][c]]]

RECURSIVE SuccessorLoop(_, _, _, _)
\* main.py:145-154, the loop over directions from index d on
SuccessorLoop(puzzle, zero_pos, d, successors) ==
  IF d > Len(directions) THEN successors
  ELSE LET new_zero_pos == << zero_pos[1] + directions[d][1],
                              zero_pos[2] + directions[d][2] >>
       IN IF new_zero_pos[1] \in Idx /\ new_zero_pos[2] \in Idx
          THEN SuccessorLoop(puzzle, zero_pos, d + 1,
                             Append(successors, SwapCells(puzzle, zero_pos, new_zero_pos)))
          ELSE SuccessorLoop(puzzle, zero_pos, d + 1, successors)

\* main.py:143-146: find_zero returned None and zero_pos[0] raises TypeError
generate_successors_raises(puzzle) == find_zero(puzzle) = NoneValue

\* main.py:129-155
generate_successors(puzzle) == SuccessorLoop(puzzle, find_zero(puzzle), 1, << >>)

(***************************************************************************)
(* Solvability check.                                                      *)
(***************************************************************************)
\* sum(puzzle, []): a new list, the rows concatenated (main.py:50)
Flatten(puzzle) == puzzle[1] \o puzzle[2] \o puzzle[3]

\* list.remove(v): the list without its first occurrence of v (the call
\* raises ValueError when v does not occur)
RemoveFirst(list, v) ==
  LET n == CHOOSE m \in 1 .. Len(list) :
             list[m] = v /\ \A q \in 1 .. m - 1 : list[q] # v
  IN SubSeq(list, 1, n - 1) \o SubSeq(list, n + 1, Len(list))

\* main.py:52-56: the pairs i < j counted by the nested loops
Inversions(puzzle_numbers) ==
  Cardinality({ij \in (1 .. Len(puzzle_numbers)) \X (1 .. Len(puzzle_numbers)) :
                 ij[1] < ij[2] /\ puzzle_numbers[ij[1]] > puzzle_numbers[ij[2]]})

\* counts the inversions without removing the blank first
is_solvable_with_blank(puzzle) == Inversions(Flatten(puzzle)) % 2 = 0

\* main.py:37-57
is_solvable(puzzle) == Inversions(RemoveFirst(Flatten(puzzle), 0)) % 2 = 0

(***************************************************************************)
(* PuzzleState and the heap that holds the frontier.                       *)
(***************************************************************************)
\* the constructor stores g and h in each other's attribute
PuzzleStateSwapped(puzzle, g, h) == [puzzle |-> puzzle, g |-> h, h |-> g, f |-> g + h]

\* puzzle_state.py:11-23
PuzzleState(puzzle, g, h) == [puzzle |-> puzzle, g |-> g, h |-> h, f |-> g + h]

\* orders the frontier by the heuristic estimate alone
PuzzleState_lt_h_only(self, other) == self.h < other.h

\* puzzle_state.py:25-33
PuzzleState_lt(self, other) == self.f < other.f

\* Python lists are 0-based: At(heap, pos) is heap[pos]
At(heap, pos) == heap[pos + 1]

Put(heap, pos, item) == [heap EXCEPT ![pos + 1] = item]

RECURSIVE siftdown(_, _, _, _)
\* heapq._siftdown: move newitem from pos towards startpos past larger parents
siftdown(heap, startpos, pos, newitem) ==
  IF pos > startpos
  THEN LET parentpos == (pos - 1) \div 2
           parent == At(heap, parentpos)
       IN IF PuzzleState_lt(newitem, parent)
          THEN siftdown(Put(heap, pos, parent), startpos, parentpos, newitem)
          ELSE Put(heap, pos, newitem)
  ELSE Put(heap, pos, newitem)

RECURSIVE siftup_loop(_, _, _)
\* heapq._siftup, its while loop: bubble the smaller child up until a leaf;
\* yields the heap and the leaf position reached
siftup_loop(heap, pos, childpos) ==
  IF childpos < Len(heap)
  THEN LET rightpos == childpos + 1
           c == IF rightpos < Len(heap)
                   /\ ~ PuzzleState_lt(At(heap, childpos), At(heap, rightpos))
                THEN rightpos ELSE childpos
       IN siftup_loop(Put(heap, pos, At(heap, c)), c, 2 * c + 1)
  ELSE [heap |-> heap, pos |-> pos]

\* heapq._siftup(heap, pos)
siftup(heap, pos) ==
  LET newitem == At(heap, pos)
      r == siftup_loop(heap, pos, 2 * pos + 1)
  IN siftdown(r.heap, pos, r.pos, newitem)

\* heapq.heappush(heap, item): the heap afterwards
heappush(heap, item) == siftdown(Append(heap, item), 0, Len(heap), item)

\* heapq.heappop(heap): the item returned and the heap afterwards
heappop(heap) ==
  LET lastelt == heap[Len(heap)]
      rest == SubSeq(heap, 1, Len(heap) - 1)
  IN IF rest # << >>
     THEN [item |-> rest[1], heap |-> siftup(Put(rest, 0, lastelt), 0)]
     ELSE [item |-> lastelt, heap |-> rest]


(***************************************************************************)
(* Reference notions the properties are stated against: a legal blank move *)
(* and the length of a shortest sequence of blank moves to the goal.       *)
(***************************************************************************)
Cells == Idx \X Idx

BlankCells(p) == {c \in Cells : Cell(p, c[1], c[2]) = 0}

Adjacent(a, b) == Abs(a[1] - b[1]) + Abs(a[2] - b[2]) = 1

\* q is p with the contents of cells a and b exchanged
IsSwapOf(q, p, a, b) ==
  /\ Cell(q, a[1], a[2]) = Cell(p, b[1], b[2])
  /\ Cell(q, b[1], b[2]) = Cell(p, a[1], a[2])
  /\ \A c \in Cells \ {a, b} : Cell(q, c[1], c[2]) = Cell(p, c[1], c[2])

Exchange(p, a, b) ==
  [p EXCEPT ![a[1] + 1][a[2] + 1] = Cell(p, b[1], b[2]),
            ![b[1] + 1][b[2] + 1] = Cell(p, a[1], a[2])]

\* the cells orthogonally adjacent to each cell
AdjacentCells == [a \in Cells |-> {b \in Cells : Adjacent(a, b)}]

\* the grids one legal blank move away from p
BlankMoves(p) ==
  UNION { {Exchange(p, z, t) : t \in AdjacentCells[z]} : z \in BlankCells(p) }

RECURSIVE Ball(_, _, _)
\* the grids within d legal blank moves of the grids in seen (frontier = newest layer)
Ball(frontier, seen, d) ==
  IF d = 0 \/ frontier = {} THEN seen
  ELSE LET next == UNION {BlankMoves(p) : p \in frontier} \ seen
       IN Ball(next, seen \cup next, d - 1)

RECURSIVE Bfs(_, _, _, _)
Bfs(frontier, seen, target, d) ==
  IF target \in frontier THEN d
  ELSE IF frontier = {} THEN -1
  ELSE LET next == UNION {BlankMoves(p) : p \in frontier} \ seen
       IN Bfs(next, seen \cup next, target, d + 1)

\* length of a shortest sequence of legal blank moves from p to q, -1 if none
ShortestMoves(p, q) == Bfs({p}, {p}, q, 0)

(***************************************************************************)
(* Spec: one call a_star(puzzle, get_goal_state_puzzle, heuristic).        *)
(***************************************************************************)
\* the fixture of the specification's section 8
Fixture == << <<1, 2, 3>>, <<4, 0, 5>>, <<6, 7, 8>> >>

\* 11 moves from the goal
FarStart == << <<1, 0, 2>>, <<3, 6, 8>>, <<7, 5, 4>> >>

\* 7 moves from the goal; its search reaches one grid along two paths
LoopStart == << <<1, 5, 4>>, <<3, 2, 0>>, <<6, 7, 8>> >>

\* a blank among eight equal tiles: 9 arrangements, none of them the goal
BlankOnly == << <<0, 1, 1>>, <<1, 1, 1>>, <<1, 1, 1>> >>

NearStarts == Ball({get_goal_state_puzzle}, {get_goal_state_puzzle}, MaxDepth)

Starts == NearStarts \cup {Fixture, FarStart, LoopStart, BlankOnly}

RECURSIVE Layers(_, _, _, _)
\* the grids at 0, 1, 2, ... legal blank moves from a start: layers[i] holds
\* the grids whose shortest distance is i - 1.  A move is undone by a move
\* and takes the blank to a cell of the other colour of the chessboard
\* colouring, so the grids one move from layer i that are not in layer i - 1
\* are layer i + 1.  The layers go on for two moves beyond the first one that
\* holds the goal (more = -1 until then), or until no grid is left.
Layers(frontier, previous, layers, more) ==
  LET left == IF more = -1 /\ get_goal_state_puzzle \in frontier THEN 2 ELSE more
      next == UNION {BlankMoves(p) : p \in frontier} \ previous
  IN IF left = 0 \/ next = {} THEN layers
     ELSE Layers(next, frontier, Append(layers, next),
                 IF left = -1 THEN -1 ELSE left - 1)

\* for each start, the layers around it
StartLayers == [s \in Starts |-> Layers({s}, {}, << {s} >>, -1)]

\* shortest number of legal blank moves from start s to grid q, -1 when q is
\* outside the layers computed for s
DistFromStart(s, q) ==
  LET L == StartLayers[s]
  IN IF \E i \in 1 .. Len(L) : q \in L[i]
     THEN (CHOOSE i \in 1 .. Len(L) : q \in L[i]) - 1
     ELSE -1

\* shortest number of moves to the goal, for each start, -1 if there is none
DistToGoal == [s \in Starts |-> DistFromStart(s, get_goal_state_puzzle)]

VARIABLES
  puzzle,            \* the start grid handed to both a_star calls
  heuristic,         \* a_star's argument: which heuristic function
  open_list,         \* the heap (a Python list) of PuzzleState
  closed_list,       \* the set of str(grid) already expanded
  expanded_nodes,    \* the counter a_star returns
  pc,                \* "running": inside a_star's while loop; "returned": a_star
                     \* has returned to the caller; "done": both results
                     \* recorded; "TypeError": the caller's unpacking raised
  ret,               \* what the current a_star call returned
  pops,              \* history: number of heappop calls made by the current call
  hamming_results,   \* the caller's list of (cost, expanded_nodes)
  manhattan_results, \* the caller's list of (cost, expanded_nodes)
  grid,              \* SpecFn: the grid the pure functions are applied to
  moves,             \* SpecFn: number of successor steps taken from the seed
  called,            \* SpecFn: the functions applied to grid so far
  hamming_out,       \* SpecFn: result of calc_hamming_distance(grid, goal)
  manhattan_out,     \* SpecFn: result of calc_manhattan_distance(grid, goal)
  successors_out,    \* SpecFn: result of generate_successors(grid)
  zero_out,          \* SpecFn: result of find_zero(grid)
  raised,            \* SpecFn: the functions whose call raised an exception
  seed,              \* SpecFn, SpecReach: the grid the walk started from
  solvable_out,      \* SpecReach, SpecStore: result of is_solvable
  objs,              \* SpecStore: the list objects of the interpreter, by address
  env                \* SpecStore: the addresses bound to main's names

avars == <<puzzle, heuristic, open_list, closed_list, expanded_nodes, pc, ret, pops,
           hamming_results, manhattan_results>>

fvars == <<grid, moves, called, hamming_out, manhattan_out, successors_out,
           zero_out, raised, seed, solvable_out>>

mvars == <<objs, env>>

vars == <<avars, fvars, mvars>>

\* no value yet: the call has not returned
Pending == [kind |-> "pending"]

\* the function fell off its end: Python returns None
ReturnNone == [kind |-> "None"]

\* the two returned values in the wrong order
ReturnTupleSwapped(g, n) == [kind |-> "tuple", cost |-> n, expanded |-> g]

\* return current_state.g, expanded_nodes
ReturnTuple(g, n) == [kind |-> "tuple", cost |-> g, expanded |-> n]

RECURSIVE PushSuccessorsUnfiltered(_, _, _, _, _, _)
\* the loop without the closed_list test
PushSuccessorsUnfiltered(heap, successors, n, closed, name, g) ==
  IF n > Len(successors) THEN heap
  ELSE LET new_g == g + 1
           h == Heuristic(name, successors[n], get_goal_state_puzzle)
           neighbor_state == PuzzleState(successors[n], new_g, h)
       IN PushSuccessorsUnfiltered(heappush(heap, neighbor_state), successors, n + 1,
                                   closed, name, g)

RECURSIVE PushSuccessors(_, _, _, _, _, _)
\* main.py:189-194, the for loop from the n-th successor on
PushSuccessors(heap, successors, n, closed, name, g) ==
  IF n > Len(successors) THEN heap
  ELSE IF Str(successors[n]) \notin closed
       THEN LET new_g == g + 1
                h == Heuristic(name, successors[n], get_goal_state_puzzle)
                neighbor_state == PuzzleState(successors[n], new_g, h)
            IN PushSuccessors(heappush(heap, neighbor_state), successors, n + 1,
                              closed, name, g)
       ELSE PushSuccessors(heap, successors, n + 1, closed, name, g)

\* main.py:173-174: the heap a_star starts from
InitialOpenList(start, name) ==
  heappush(<< >>, PuzzleState(start, 0, Heuristic(name, start, get_goal_state_puzzle)))

\* the SpecFn variables while Spec runs
FIdle ==
  /\ grid = get_goal_state_puzzle
  /\ moves = 0
  /\ called = {}
  /\ hamming_out = 0
  /\ manhattan_out = 0
  /\ successors_out = << >>
  /\ zero_out = NoneValue
  /\ raised = {}
  /\ seed = get_goal_state_puzzle
  /\ solvable_out = TRUE

\* the SpecStore variables while the other specifications run
MIdle ==
  /\ objs = << >>
  /\ env = << >>

\* main.py:242 and 173-176: the caller enters a_star with the Hamming heuristic
AInit ==
  /\ puzzle \in Starts
  /\ heuristic = "hamming"
  /\ open_list = InitialOpenList(puzzle, heuristic)
  /\ closed_list = {}
  /\ expanded_nodes = 0
  /\ pc = "running"
  /\ ret = Pending
  /\ pops = 0
  /\ hamming_results = << >>
  /\ manhattan_results = << >>

\* the counter incremented only after the closed_list test
PopDiscardUncounted ==
  /\ pc = "running"
  /\ open_list # << >>
  /\ LET popped == heappop(open_list)
         current_state == popped.item
     IN /\ Str(current_state.puzzle) \in closed_list
        /\ open_list' = popped.heap
        /\ pops' = pops + 1
  /\ UNCHANGED <<puzzle, heuristic, closed_list, expanded_nodes, pc, ret,
                 hamming_results, manhattan_results, fvars, mvars>>

\* main.py:179-183: the popped grid is already in closed_list, continue
PopDiscard ==
  /\ pc = "running"
  /\ open_list # << >>
  /\ LET popped == heappop(open_list)
         current_state == popped.item
     IN /\ Str(current_state.puzzle) \in closed_list
        /\ open_list' = popped.heap
        /\ expanded_nodes' = expanded_nodes + 1
        /\ pops' = pops + 1
  /\ UNCHANGED <<puzzle, heuristic, closed_list, pc, ret,
                 hamming_results, manhattan_results, fvars, mvars>>

\* the goal test placed after the loop that pushes the successors
PopGoalAfterPush ==
  /\ pc = "running"
  /\ open_list # << >>
  /\ LET popped == heappop(open_list)
         current_state == popped.item
     IN /\ Str(current_state.puzzle) \notin closed_list
        /\ current_state.puzzle = get_goal_state_puzzle
        /\ expanded_nodes' = expanded_nodes + 1
        /\ pops' = pops + 1
        /\ closed_list' = closed_list \cup {Str(current_state.puzzle)}
        /\ open_list' = PushSuccessors(popped.heap,
                                       generate_successors(current_state.puzzle), 1,
                                       closed_list', heuristic, current_state.g)
        /\ ret' = ReturnTuple(current_state.g, expanded_nodes')
        /\ pc' = "returned"
  /\ UNCHANGED <<puzzle, heuristic, hamming_results, manhattan_results, fvars, mvars>>

\* main.py:179-187: the popped grid is new and is the goal, return
PopGoal ==
  /\ pc = "running"
  /\ open_list # << >>
  /\ LET popped == heappop(open_list)
         current_state == popped.item
     IN /\ Str(current_state.puzzle) \notin closed_list
        /\ current_state.puzzle = get_goal_state_puzzle
        /\ open_list' = popped.heap
        /\ expanded_nodes' = expanded_nodes + 1
        /\ pops' = pops + 1
        /\ closed_list' = closed_list \cup {Str(current_state.puzzle)}
        /\ ret' = ReturnTuple(current_state.g, expanded_nodes')
        /\ pc' = "returned"
  /\ UNCHANGED <<puzzle, heuristic, hamming_results, manhattan_results, fvars, mvars>>

\* main.py:179-194: the popped grid is new and not the goal, push its successors
PopExpand ==
  /\ pc = "running"
  /\ open_list # << >>
  /\ LET popped == heappop(open_list)
         current_state == popped.item
     IN /\ Str(current_state.puzzle) \notin closed_list
        /\ current_state.puzzle # get_goal_state_puzzle
        /\ expanded_nodes' = expanded_nodes + 1
        /\ pops' = pops + 1
        /\ closed_list' = closed_list \cup {Str(current_state.puzzle)}
        /\ open_list' = PushSuccessors(popped.heap,
                                       generate_successors(current_state.puzzle), 1,
                                       closed_list', heuristic, current_state.g)
  /\ UNCHANGED <<puzzle, heuristic, pc, ret, hamming_results, manhattan_results, fvars, mvars>>

\* the search starts over when the frontier is empty instead of returning
ExhaustRestart ==
  /\ pc = "running"
  /\ open_list = << >>
  /\ open_list' = InitialOpenList(puzzle, heuristic)
  /\ closed_list' = {}
  /\ expanded_nodes' = 0
  /\ pops' = 0
  /\ UNCHANGED <<puzzle, heuristic, pc, ret, hamming_results, manhattan_results, fvars, mvars>>

\* main.py:178: open_list is empty, the loop ends and the function ends with it
Exhaust ==
  /\ pc = "running"
  /\ open_list = << >>
  /\ pc' = "returned"
  /\ ret' = ReturnNone
  /\ UNCHANGED <<puzzle, heuristic, open_list, closed_list, expanded_nodes, pops,
                 hamming_results, manhattan_results, fvars, mvars>>

\* main.py:242-249: unpack and record the Hamming result, call a_star with Manhattan
RecordHamming ==
  /\ pc = "returned"
  /\ heuristic = "hamming"
  /\ ret.kind = "tuple"
  /\ hamming_results' = Append(hamming_results, <<ret.cost, ret.expanded>>)
  /\ heuristic' = "manhattan"
  /\ open_list' = InitialOpenList(puzzle, heuristic')
  /\ closed_list' = {}
  /\ expanded_nodes' = 0
  /\ pops' = 0
  /\ ret' = Pending
  /\ pc' = "running"
  /\ UNCHANGED <<puzzle, manhattan_results, fvars, mvars>>

\* main.py:249-252: unpack and record the Manhattan result
RecordManhattan ==
  /\ pc = "returned"
  /\ heuristic = "manhattan"
  /\ ret.kind = "tuple"
  /\ manhattan_results' = Append(manhattan_results, <<ret.cost, ret.expanded>>)
  /\ pc' = "done"
  /\ UNCHANGED <<puzzle, heuristic, open_list, closed_list, expanded_nodes, pops, ret,
                 hamming_results, fvars, mvars>>

\* main.py:242, 249: "cost, expanded_nodes = None" raises TypeError
UnpackNone ==
  /\ pc = "returned"
  /\ ret = ReturnNone
  /\ pc' = "TypeError"
  /\ UNCHANGED <<puzzle, heuristic, open_list, closed_list, expanded_nodes, pops, ret,
                 hamming_results, manhattan_results, fvars, mvars>>

Init == AInit /\ FIdle /\ MIdle

Next ==
  \/ PopDiscard
  \/ PopGoal
  \/ PopExpand
  \/ Exhaust
  \/ RecordHamming
  \/ RecordManhattan
  \/ UnpackNone

Spec == Init /\ [][Next]_vars

\* a step of Next can be taken: a_star is in its loop, or the caller holds
\* a returned value it has not unpacked yet
NextEnabled == pc \in {"running", "returned"}

\* a_star and its caller are one sequential thread of a running interpreter:
\* a step that can be taken is taken.  This is WF_vars(Next) with
\* ENABLED <<Next>>_vars written out as NextEnabled.
FairSpec == Spec /\ ([]<>(~NextEnabled) \/ []<><<Next>>_vars)

(***************************************************************************)
(* Properties of a_star (checked under Spec).                              *)
(***************************************************************************)
\* the goal can be reached from the start grid by legal blank moves
Solvable(p) == IsPermutation(p) /\ DistToGoal[p] >= 0

\* C1: for every permutation start from which the goal is reachable, a_star
\* with calc_hamming_distance returns a cost equal to the length of a
\* shortest sequence of blank moves from start to goal.
HammingCostIsShortest ==
  (pc = "returned" /\ heuristic = "hamming" /\ Solvable(puzzle))
    => (ret.kind = "tuple" /\ ret.cost = DistToGoal[puzzle])

\* a Hamming search from a start at least MaxDepth moves away has returned
HammingCostIsShortestWitness ==
  /\ pc = "returned"
  /\ heuristic = "hamming"
  /\ Solvable(puzzle)
  /\ ret.kind = "tuple"
  /\ ret.cost = DistToGoal[puzzle]
  /\ ret.cost >= MaxDepth

\* C2: for every solvable start, a_star with calc_manhattan_distance and
\* a_star with calc_hamming_distance return the identical cost, and that
\* cost is the optimal solution length.
BothHeuristicsSameCost ==
  (pc = "done" /\ Solvable(puzzle))
    => /\ manhattan_results[1][1] = hamming_results[1][1]
       /\ manhattan_results[1][1] = DistToGoal[puzzle]

\* C4: when the frontier becomes empty without the goal having been popped,
\* a_star returns an explicit "no solution found" result: neither a
\* (cost, expanded) pair nor an absent value.
ExhaustionIsExplicit ==
  (pc = "returned" /\ open_list = << >> /\ Str(get_goal_state_puzzle) \notin closed_list)
    => (ret.kind # "tuple" /\ ret # ReturnNone)

\* C5: whenever a_star returns successfully, the returned expanded count is
\* the number of heap pops made in that call, the goal pop and every
\* discarded duplicate pop included.
ExpandedCountsEveryPop ==
  (pc = "returned" /\ ret.kind = "tuple") => ret.expanded = pops

\* a successful return after at least one pop was discarded: every pop that
\* is not discarded adds one string to closed_list
ExpandedCountsEveryPopWitness ==
  /\ pc = "returned"
  /\ ret.kind = "tuple"
  /\ ret.expanded = pops
  /\ pops > Cardinality(closed_list)

\* C6 as stated: the fixture search returns cost 5, and 5 is the length of
\* the shortest move sequence from the fixture to the goal.
FixtureCostIsFive ==
  (pc = "returned" /\ puzzle = Fixture)
    => (ret.kind = "tuple" /\ ret.cost = 5 /\ DistToGoal[Fixture] = 5)

\* C6, amended: the fixture search returns cost 14 with either heuristic,
\* and 14 is the length of the shortest move sequence from the fixture to
\* the goal.
FixtureCostIsFourteen ==
  (pc = "returned" /\ puzzle = Fixture)
    => (ret.kind = "tuple" /\ ret.cost = 14 /\ DistToGoal[Fixture] = 14)

\* both searches from the fixture have returned 14
FixtureCostIsFourteenWitness ==
  /\ pc = "done"
  /\ puzzle = Fixture
  /\ hamming_results = << <<14, hamming_results[1][2]>> >>
  /\ manhattan_results = << <<14, manhattan_results[1][2]>> >>

\* C13: when start equals goal, a_star returns (cost = 0, expanded = 1): the
\* start node is the only node popped and no successor is generated before
\* returning.
GoalStartReturnsAtOnce ==
  (puzzle = get_goal_state_puzzle /\ pc = "returned")
    => /\ ret = ReturnTuple(0, 1)
       /\ pops = 1
       /\ open_list = << >>
       /\ closed_list = {Str(get_goal_state_puzzle)}

\* both searches from the goal grid have returned (0, 1)
GoalStartReturnsAtOnceWitness ==
  /\ puzzle = get_goal_state_puzzle
  /\ pc = "done"
  /\ hamming_results = << <<0, 1>> >>
  /\ manhattan_results = << <<0, 1>> >>

\* C15: with either heuristic, at the moment a_star inserts a grid into the
\* visited set, the g of the popped node equals the shortest move distance
\* from start to that grid.
ClosedAtShortestDistance ==
  [][(pc = "running" /\ closed_list' # closed_list)
       => LET current_state == heappop(open_list).item
          IN current_state.g = DistFromStart(puzzle, current_state.puzzle)]_vars

\* number of occurrences of item in a Python list
Count(list, item) == Cardinality({i \in 1 .. Len(list) : list[i] = item})

\* C17: within one a_star call each grid is expanded at most once: once a
\* grid is in the visited set, every later pop of a node for that grid is
\* discarded without pushing anything, the visited set only grows, and no
\* node whose grid is in the visited set is pushed onto the frontier.
ExpandedAtMostOnce ==
  [][(pc = "running" /\ open_list # << >>)
       => LET popped == heappop(open_list)
          IN /\ closed_list \subseteq closed_list'
             /\ Str(popped.item.puzzle) \in closed_list
                  => /\ closed_list' = closed_list
                     /\ Len(open_list') = Len(popped.heap)
                     /\ \A i \in 1 .. Len(open_list') :
                          Count(open_list', open_list'[i])
                            = Count(popped.heap, open_list'[i])
             /\ Str(popped.item.puzzle) \notin closed_list
                  => Cardinality(closed_list') = Cardinality(closed_list) + 1
             /\ \A i \in 1 .. Len(open_list') :
                  Str(open_list'[i].puzzle) \in closed_list'
                    => Count(open_list', open_list'[i])
                         <= Count(popped.heap, open_list'[i])]_vars

\* the search goes on after a pop was discarded
ExpandedAtMostOnceWitness ==
  /\ pc = "running"
  /\ open_list # << >>
  /\ pops > Cardinality(closed_list)

\* C19: for every start grid of the model (the permutations, and BlankOnly as
\* a start from which the goal cannot be reached) and either heuristic, a
\* running a_star eventually returns: with a cost and a count when the goal
\* is reachable from start, with the frontier exhausted otherwise.
AStarTerminates ==
  (pc = "running")
    ~> /\ pc = "returned"
       /\ IF DistToGoal[puzzle] >= 0
            THEN ret.kind = "tuple" /\ closed_list # {}
            ELSE open_list = << >> /\ ret.kind # "tuple"

\* a search from a permutation has returned after at least a hundred pops
AStarTerminatesWitness ==
  /\ pc = "returned"
  /\ IsPermutation(puzzle)
  /\ ret.kind = "tuple"
  /\ pops >= 100

\* C20: in every reachable state of a_star, each frontier node carries a g
\* that is the length of an actual sequence of legal blank moves from start
\* to the node's grid, and f = g + h for the chosen heuristic; any cost
\* returned is the length of a real path from start to goal, never less
\* than the optimal length.  (Every move takes the blank to a cell of the
\* other colour of the chessboard colouring and can be undone, so a move
\* sequence of length g from start to a grid at shortest distance d exists
\* exactly when g >= d and g - d is even.)
FrontierCostsAreRealPaths ==
  /\ \A i \in 1 .. Len(open_list) :
       LET node == open_list[i]
           d == DistFromStart(puzzle, node.puzzle)
       IN /\ d >= 0
          /\ node.g >= d
          /\ (node.g - d) % 2 = 0
          /\ node.h = Heuristic(heuristic, node.puzzle, get_goal_state_puzzle)
          /\ node.f = node.g + node.h
  /\ (pc = "returned" /\ ret.kind = "tuple")
       => /\ ret.cost >= DistFromStart(puzzle, get_goal_state_puzzle)
          /\ DistFromStart(puzzle, get_goal_state_puzzle) >= 0
          /\ (ret.cost - DistFromStart(puzzle, get_goal_state_puzzle)) % 2 = 0

\* the Manhattan search from FarStart has returned a cost above the shortest
\* distance, with nodes left on the frontier
FrontierCostsAreRealPathsWitness ==
  /\ pc = "returned"
  /\ ret.kind = "tuple"
  /\ ret.cost > DistToGoal[puzzle]
  /\ open_list # << >>

(***************************************************************************)
(* SpecFn: the pure functions applied to one grid at a time.  The grid     *)
(* starts at a seed and moves on to one of the successors that             *)
(* generate_successors returned, as a_star does.                           *)
(***************************************************************************)
\* a permutation from which the goal cannot be reached (tiles 1 and 2 exchanged)
OddSeed == << <<0, 2, 1>>, <<3, 4, 5>>, <<6, 7, 8>> >>

\* a permutation far from the goal
ReversedSeed == << <<8, 7, 6>>, <<5, 4, 3>>, <<2, 1, 0>> >>

\* a grid without a blank
NoBlank == << <<1, 2, 3>>, <<4, 5, 6>>, <<7, 8, 9>> >>

Seeds == {get_goal_state_puzzle, OddSeed, ReversedSeed, NoBlank}

\* the Spec variables while SpecFn runs
AIdle ==
  /\ puzzle = get_goal_state_puzzle
  /\ heuristic = "hamming"
  /\ open_list = << >>
  /\ closed_list = {}
  /\ expanded_nodes = 0
  /\ pc = "idle"
  /\ ret = Pending
  /\ pops = 0
  /\ hamming_results = << >>
  /\ manhattan_results = << >>

FInit ==
  /\ grid \in Seeds
  /\ moves = 0
  /\ called = {}
  /\ hamming_out = 0
  /\ manhattan_out = 0
  /\ successors_out = << >>
  /\ zero_out = NoneValue
  /\ raised = {}
  /\ seed = grid
  /\ solvable_out = TRUE

\* h = calc_hamming_distance(grid, goal_state)
CallHamming ==
  /\ pc = "idle"
  /\ "hamming" \notin called
  /\ hamming_out' = calc_hamming_distance(grid, get_goal_state_puzzle)
  /\ called' = called \cup {"hamming"}
  /\ UNCHANGED <<grid, moves, manhattan_out, successors_out, zero_out, raised, seed,
                 solvable_out, avars, mvars>>

\* h = calc_manhattan_distance(grid, goal_state)
CallManhattan ==
  /\ pc = "idle"
  /\ "manhattan" \notin called
  /\ manhattan_out' = calc_manhattan_distance(grid, get_goal_state_puzzle)
  /\ called' = called \cup {"manhattan"}
  /\ UNCHANGED <<grid, moves, hamming_out, successors_out, zero_out, raised, seed,
                 solvable_out, avars, mvars>>

\* successors = generate_successors(grid)
CallSuccessors ==
  /\ pc = "idle"
  /\ "successors" \notin called
  /\ called' = called \cup {"successors"}
  /\ IF generate_successors_raises(grid)
     THEN /\ raised' = raised \cup {"successors"}
          /\ UNCHANGED successors_out
     ELSE /\ successors_out' = generate_successors(grid)
          /\ UNCHANGED raised
  /\ UNCHANGED <<grid, moves, hamming_out, manhattan_out, zero_out, seed, solvable_out,
                 avars, mvars>>

\* zero_pos = find_zero(grid)
CallFindZero ==
  /\ pc = "idle"
  /\ "find_zero" \notin called
  /\ zero_out' = find_zero(grid)
  /\ called' = called \cup {"find_zero"}
  /\ UNCHANGED <<grid, moves, hamming_out, manhattan_out, successors_out, raised, seed,
                 solvable_out, avars, mvars>>

\* for successor in successors: carry on with one of the grids returned
TakeSuccessor ==
  /\ pc = "idle"
  /\ "successors" \in called
  /\ "successors" \notin raised
  /\ moves < MaxMoves
  /\ \E n \in 1 .. Len(successors_out) : grid' = successors_out[n]
  /\ moves' = moves + 1
  /\ called' = {}
  /\ hamming_out' = 0
  /\ manhattan_out' = 0
  /\ successors_out' = << >>
  /\ zero_out' = NoneValue
  /\ UNCHANGED <<raised, seed, solvable_out, avars, mvars>>

FNext ==
  \/ CallHamming
  \/ CallManhattan
  \/ CallSuccessors
  \/ CallFindZero
  \/ TakeSuccessor

FnInit == FInit /\ AIdle /\ MIdle

SpecFn == FnInit /\ [][FNext]_vars

(***************************************************************************)
(* SpecReach: a candidate grid is tested with is_solvable (main.py:19),    *)
(* then replaced by any of its successors and tested again, without bound. *)
(***************************************************************************)
ReachSeeds == {get_goal_state_puzzle, OddSeed}

ReachInit ==
  /\ grid \in ReachSeeds
  /\ seed = grid
  /\ solvable_out = is_solvable(grid)
  /\ moves = 0
  /\ called = {}
  /\ hamming_out = 0
  /\ manhattan_out = 0
  /\ successors_out = << >>
  /\ zero_out = NoneValue
  /\ raised = {}
  /\ AIdle
  /\ MIdle

\* one blank move (main.py:129-155), then is_solvable on the new grid
SlideAndTest ==
  /\ pc = "idle"
  /\ LET successors == generate_successors(grid)
     IN \E n \in 1 .. Len(successors) : grid' = successors[n]
  /\ solvable_out' = is_solvable(grid')
  /\ UNCHANGED <<moves, called, hamming_out, manhattan_out, successors_out, zero_out,
                 raised, seed, avars, mvars>>

SpecReach == ReachInit /\ [][SlideAndTest]_vars

(***************************************************************************)
(* Properties of is_solvable (checked under SpecReach).                    *)
(***************************************************************************)
\* C11: a permutation grid is reachable from the goal by generate_successors
\* moves iff is_solvable returns true for it.  Every grid reached from the
\* goal tests true; every grid reached from OddSeed tests false, so the two
\* sets of grids are disjoint, and together they are all 9! permutations
\* (362880 distinct states), so every grid that tests true is reached from
\* the goal.
SolvableIffReachedFromGoal ==
  IsPermutation(grid) /\ (solvable_out <=> seed = get_goal_state_puzzle)

\* the fixture grid, reached from the goal after 14 moves, tests true
SolvableIffReachedFromGoalWitness ==
  /\ seed = get_goal_state_puzzle
  /\ grid = Fixture
  /\ solvable_out

(***************************************************************************)
(* Properties of the pure functions (checked under SpecFn).                *)
(***************************************************************************)
\* the grids within MaxMoves blank moves of the goal, with their distance
GoalDist ==
  [p \in Ball({get_goal_state_puzzle}, {get_goal_state_puzzle}, MaxMoves)
     |-> ShortestMoves(p, get_goal_state_puzzle)]

\* the cell of grid p that holds value v
PosOf(p, v) == CHOOSE c \in Cells : Cell(p, c[1], c[2]) = v

RECURSIVE TileDisplacement(_, _, _)
\* sum over the tiles v .. 8 of |row_diff| + |col_diff| between p and q
TileDisplacement(p, q, v) ==
  IF v > 8 THEN 0
  ELSE Abs(PosOf(p, v)[1] - PosOf(q, v)[1]) + Abs(PosOf(p, v)[2] - PosOf(q, v)[2])
       + TileDisplacement(p, q, v + 1)

\* C3: both heuristics are admissible: for every grid from which the goal
\* is reachable, calc_hamming_distance and calc_manhattan_distance are each
\* at most the true shortest number of moves to the goal.
HeuristicsAdmissible ==
  (IsPermutation(grid) /\ grid \in DOMAIN GoalDist)
    => /\ "hamming" \in called => hamming_out <= GoalDist[grid]
       /\ "manhattan" \in called => manhattan_out <= GoalDist[grid]

\* C7: for every permutation grid, calc_hamming_distance(g, goal) <=
\* calc_manhattan_distance(g, goal).
ManhattanDominatesHamming ==
  (IsPermutation(grid) /\ {"hamming", "manhattan"} \subseteq called)
    => hamming_out <= manhattan_out

\* both heuristics applied to a grid with misplaced tiles
ManhattanDominatesHammingWitness ==
  /\ IsPermutation(grid)
  /\ {"hamming", "manhattan"} \subseteq called
  /\ 0 < hamming_out
  /\ hamming_out <= manhattan_out

\* C8: calc_manhattan_distance(grid, goal) is, for every permutation grid,
\* the sum over the non-zero tiles of |row_diff| + |col_diff| between the
\* tile's cell in grid and its cell in goal; the blank contributes nothing
\* and every other tile is counted whatever cell it occupies.
ManhattanIsTileDisplacement ==
  (IsPermutation(grid) /\ "manhattan" \in called)
    => manhattan_out = TileDisplacement(grid, get_goal_state_puzzle, 1)

\* C9: for every permutation grid, calc_hamming_distance(g, goal) = 0 iff
\* g = goal, and calc_manhattan_distance(g, goal) = 0 iff g = goal.
HeuristicsZeroOnlyAtGoal ==
  IsPermutation(grid)
    => /\ "hamming" \in called => (hamming_out = 0 <=> grid = get_goal_state_puzzle)
       /\ "manhattan" \in called => (manhattan_out = 0 <=> grid = get_goal_state_puzzle)

\* both heuristics applied to the goal grid after coming back to it
HeuristicsZeroOnlyAtGoalWitness ==
  /\ grid = get_goal_state_puzzle
  /\ moves > 0
  /\ {"hamming", "manhattan"} \subseteq called
  /\ hamming_out = 0
  /\ manhattan_out = 0

\* C10: for every permutation grid g, generate_successors(g) returns between
\* 2 and 4 grids (2 with the blank in a corner, 3 on an edge, 4 in the
\* centre), each differing from g by exactly one swap of the blank with an
\* orthogonally adjacent tile, and g is never among them.
SuccessorsAreBlankMoves ==
  (IsPermutation(grid) /\ "successors" \in called)
    => LET z == PosOf(grid, 0)
           corner == z[1] # 1 /\ z[2] # 1
           centre == z = <<1, 1>>
       IN /\ Len(successors_out) \in 2 .. 4
          /\ Len(successors_out) = (IF corner THEN 2 ELSE IF centre THEN 4 ELSE 3)
          /\ \A n \in 1 .. Len(successors_out) :
               /\ \E t \in Cells : Adjacent(z, t) /\ IsSwapOf(successors_out[n], grid, z, t)
               /\ successors_out[n] # grid

\* generate_successors applied with the blank in the centre: four grids
SuccessorsAreBlankMovesWitness ==
  /\ IsPermutation(grid)
  /\ "successors" \in called
  /\ PosOf(grid, 0) = <<1, 1>>
  /\ Len(successors_out) = 4
  /\ \A n \in 1 .. 4 : successors_out[n] \in BlankMoves(grid) \ {grid}

\* C12: moves are reversible: for every permutation grid g and every s in
\* generate_successors(g), g is a member of generate_successors(s).
MovesAreReversible ==
  (IsPermutation(grid) /\ "successors" \in called)
    => \A n \in 1 .. Len(successors_out) :
         LET back == generate_successors(successors_out[n])
         IN \E m \in 1 .. Len(back) : back[m] = grid

\* generate_successors applied with the blank on an edge: three grids, each
\* with the input grid among its own successors
MovesAreReversibleWitness ==
  /\ IsPermutation(grid)
  /\ "successors" \in called
  /\ Len(successors_out) = 3
  /\ \A n \in 1 .. 3 :
       \E m \in 1 .. Len(generate_successors(successors_out[n])) :
         generate_successors(successors_out[n])[m] = grid

\* C14: find_zero applied to a grid that contains no 0 fails with an error;
\* it does not complete normally with a returned value.
FindZeroFailsWithoutBlank ==
  ("find_zero" \in called /\ BlankCells(grid) = {}) => "find_zero" \in raised

\* C16: both heuristics are consistent: for every permutation grid g and
\* every s in generate_successors(g), h(g, goal) <= 1 + h(s, goal), for
\* calc_hamming_distance and for calc_manhattan_distance.
HeuristicsConsistent ==
  (IsPermutation(grid) /\ {"hamming", "manhattan", "successors"} \subseteq called)
    => \A n \in 1 .. Len(successors_out) :
         /\ hamming_out
              <= 1 + calc_hamming_distance(successors_out[n], get_goal_state_puzzle)
         /\ manhattan_out
              <= 1 + calc_manhattan_distance(successors_out[n], get_goal_state_puzzle)

(***************************************************************************)
(* SpecStore: main's flow for one candidate grid with Python's list        *)
(* objects made explicit.  objs[a] is the list at address a: a row holds   *)
(* integers, a grid holds the addresses of its three rows.  A PuzzleState  *)
(* holds the address of its grid (puzzle_state.py:20 stores the reference).*)
(* The candidate is tested by is_solvable (main.py:18-19), then handed to  *)
(* a_star with Hamming and again with Manhattan (main.py:239-252).         *)
(***************************************************************************)
\* the grid value held by the list at address ref
Deref(store, ref) == [r \in 1 .. Len(store[ref]) |-> store[store[ref][r]]]

\* a list of lists built from a value: its rows, then the outer list
NewGrid(store, value) ==
  LET n == Len(store)
  IN [objs |-> store \o value \o << [r \in 1 .. Len(value) |-> n + r] >>,
      ref |-> n + Len(value) + 1]

\* new_puzzle = puzzle[:]: a new outer list that holds the rows of puzzle
ShallowCopy(store, ref) ==
  [objs |-> Append(store, store[ref]), ref |-> Len(store) + 1]

\* main.py:148: new_puzzle = [row[:] for row in puzzle], a new list for
\* every row and a new outer list that holds them
CopyRows(store, ref) ==
  LET n == Len(store)
      rows == store[ref]
  IN [objs |-> store \o [r \in 1 .. Len(rows) |-> store[rows[r]]]
                     \o << [r \in 1 .. Len(rows) |-> n + r] >>,
      ref |-> n + Len(rows) + 1]

\* main.py:152-153: the right-hand side is read first, then the two cells of
\* the list at ref are stored, left target first
SwapInPlace(store, ref, a, b) ==
  LET at_b == store[store[ref][b[1] + 1]][b[2] + 1]
      at_a == store[store[ref][a[1] + 1]][a[2] + 1]
      first == [store EXCEPT ![store[ref][a[1] + 1]][a[2] + 1] = at_b]
  IN [first EXCEPT ![first[ref][b[1] + 1]][b[2] + 1] = at_a]

RECURSIVE SuccessorLoopInStore(_, _, _, _, _)
\* main.py:145-154 on list objects, the loop over directions from index d on
SuccessorLoopInStore(store, ref, zero_pos, d, successors) ==
  IF d > Len(directions) THEN [objs |-> store, successors |-> successors]
  ELSE LET new_zero_pos == << zero_pos[1] + directions[d][1],
                              zero_pos[2] + directions[d][2] >>
       IN IF new_zero_pos[1] \in Idx /\ new_zero_pos[2] \in Idx
          THEN LET new_puzzle == CopyRows(store, ref)
                   swapped == SwapInPlace(new_puzzle.objs, new_puzzle.ref,
                                          zero_pos, new_zero_pos)
               IN SuccessorLoopInStore(swapped, ref, zero_pos, d + 1,
                                       Append(successors, new_puzzle.ref))
          ELSE SuccessorLoopInStore(store, ref, zero_pos, d + 1, successors)

\* main.py:129-155 on list objects: the store afterwards and the addresses
\* of the successors
generate_successors_in_store(store, ref) ==
  SuccessorLoopInStore(store, ref, find_zero(Deref(store, ref)), 1, << >>)

\* main.py:50-57 on list objects: sum(puzzle, []) builds a new flat list,
\* remove(0) changes that list in place
is_solvable_in_store(store, ref) ==
  LET puzzle_numbers == Len(store) + 1
      summed == Append(store, Flatten(Deref(store, ref)))
      removed == [summed EXCEPT ![puzzle_numbers] = RemoveFirst(@, 0)]
  IN [objs |-> removed, result |-> Inversions(removed[puzzle_numbers]) % 2 = 0]

RECURSIVE PushSuccessorsInStore(_, _, _, _, _, _, _, _)
\* main.py:189-194 on list objects, the for loop from the n-th successor on
PushSuccessorsInStore(heap, store, goal_state, successors, n, closed, name, g) ==
  IF n > Len(successors) THEN heap
  ELSE IF Str(Deref(store, successors[n])) \notin closed
       THEN LET new_g == g + 1
                h == Heuristic(name, Deref(store, successors[n]),
                               Deref(store, goal_state))
                neighbor_state == PuzzleState(successors[n], new_g, h)
            IN PushSuccessorsInStore(heappush(heap, neighbor_state), store, goal_state,
                                     successors, n + 1, closed, name, g)
       ELSE PushSuccessorsInStore(heap, store, goal_state, successors, n + 1,
                                  closed, name, g)

\* the candidates: the a_star starts near the goal, a start whose frontier
\* runs empty, and a permutation that is_solvable rejects
StoreStarts == NearStarts \cup {LoopStart, BlankOnly, OddSeed}

\* the SpecFn variables that SpecStore leaves alone
svars == <<grid, moves, called, hamming_out, manhattan_out, successors_out,
           zero_out, raised, seed>>

\* main.py:16-18 and 234: the candidate and the goal are built
StoreInit ==
  /\ puzzle \in StoreStarts
  /\ LET array == NewGrid(<< >>, puzzle)
         goal_state == NewGrid(array.objs, get_goal_state_puzzle)
     IN /\ objs = goal_state.objs
        /\ env = [puzzle |-> array.ref, goal_state |-> goal_state.ref]
  /\ heuristic = "hamming"
  /\ open_list = << >>
  /\ closed_list = {}
  /\ expanded_nodes = 0
  /\ pc = "created"
  /\ ret = Pending
  /\ pops = 0
  /\ hamming_results = << >>
  /\ manhattan_results = << >>
  /\ FIdle

\* main.py:19-20: if is_solvable(array): return array; a rejected candidate
\* is dropped
StoreIsSolvable ==
  /\ pc = "created"
  /\ LET call == is_solvable_in_store(objs, env.puzzle)
     IN /\ objs' = call.objs
        /\ solvable_out' = call.result
        /\ pc' = IF call.result THEN "ready" ELSE "rejected"
  /\ UNCHANGED <<puzzle, heuristic, open_list, closed_list, expanded_nodes, ret, pops,
                 hamming_results, manhattan_results, env, svars>>

\* main.py:173-176: a_star is entered and pushes the node of the start grid
StoreBegin ==
  /\ pc = "ready"
  /\ open_list' = heappush(<< >>,
                           PuzzleState(env.puzzle, 0,
                                       Heuristic(heuristic, Deref(objs, env.puzzle),
                                                 Deref(objs, env.goal_state))))
  /\ closed_list' = {}
  /\ expanded_nodes' = 0
  /\ pops' = 0
  /\ pc' = "running"
  /\ UNCHANGED <<puzzle, heuristic, ret, hamming_results, manhattan_results,
                 solvable_out, mvars, svars>>

\* main.py:179-183 on list objects
StorePopDiscard ==
  /\ pc = "running"
  /\ open_list # << >>
  /\ LET popped == heappop(open_list)
         current_state == popped.item
     IN /\ Str(Deref(objs, current_state.puzzle)) \in closed_list
        /\ open_list' = popped.heap
        /\ expanded_nodes' = expanded_nodes + 1
        /\ pops' = pops + 1
  /\ UNCHANGED <<puzzle, heuristic, closed_list, pc, ret, hamming_results,
                 manhattan_results, solvable_out, mvars, svars>>

\* main.py:179-187 on list objects
StorePopGoal ==
  /\ pc = "running"
  /\ open_list # << >>
  /\ LET popped == heappop(open_list)
         current_state == popped.item
     IN /\ Str(Deref(objs, current_state.puzzle)) \notin closed_list
        /\ Deref(objs, current_state.puzzle) = Deref(objs, env.goal_state)
        /\ open_list' = popped.heap
        /\ expanded_nodes' = expanded_nodes + 1
        /\ pops' = pops + 1
        /\ closed_list' = closed_list \cup {Str(Deref(objs, current_state.puzzle))}
        /\ ret' = ReturnTuple(current_state.g, expanded_nodes')
        /\ pc' = "returned"
  /\ UNCHANGED <<puzzle, heuristic, hamming_results, manhattan_results,
                 solvable_out, mvars, svars>>

\* main.py:179-194 on list objects
StorePopExpand ==
  /\ pc = "running"
  /\ open_list # << >>
  /\ LET popped == heappop(open_list)
         current_state == popped.item
         call == generate_successors_in_store(objs, current_state.puzzle)
     IN /\ Str(Deref(objs, current_state.puzzle)) \notin closed_list
        /\ Deref(objs, current_state.puzzle) # Deref(objs, env.goal_state)
        /\ expanded_nodes' = expanded_nodes + 1
        /\ pops' = pops + 1
        /\ closed_list' = closed_list \cup {Str(Deref(objs, current_state.puzzle))}
        /\ objs' = call.objs
        /\ open_list' = PushSuccessorsInStore(popped.heap, objs', env.goal_state,
                                              call.successors, 1, closed_list',
                                              heuristic, current_state.g)
  /\ UNCHANGED <<puzzle, heuristic, pc, ret, hamming_results, manhattan_results,
                 solvable_out, env, svars>>

\* main.py:178: open_list is empty, the function ends and returns None
StoreExhaust ==
  /\ pc = "running"
  /\ open_list = << >>
  /\ pc' = "returned"
  /\ ret' = ReturnNone
  /\ UNCHANGED <<puzzle, heuristic, open_list, closed_list, expanded_nodes, pops,
                 hamming_results, manhattan_results, solvable_out, mvars, svars>>

\* main.py:242-249: the Hamming result is recorded, a_star is called again
\* with the same puzzle object
StoreRecordHamming ==
  /\ pc = "returned"
  /\ heuristic = "hamming"
  /\ ret.kind = "tuple"
  /\ hamming_results' = Append(hamming_results, <<ret.cost, ret.expanded>>)
  /\ heuristic' = "manhattan"
  /\ ret' = Pending
  /\ pc' = "ready"
  /\ UNCHANGED <<puzzle, open_list, closed_list, expanded_nodes, pops,
                 manhattan_results, solvable_out, mvars, svars>>

\* main.py:249-252
StoreRecordManhattan ==
  /\ pc = "returned"
  /\ heuristic = "manhattan"
  /\ ret.kind = "tuple"
  /\ manhattan_results' = Append(manhattan_results, <<ret.cost, ret.expanded>>)
  /\ pc' = "done"
  /\ UNCHANGED <<puzzle, heuristic, open_list, closed_list, expanded_nodes, pops, ret,
                 hamming_results, solvable_out, mvars, svars>>

\* main.py:242, 249: "cost, expanded_nodes = None" raises TypeError
StoreUnpackNone ==
  /\ pc = "returned"
  /\ ret = ReturnNone
  /\ pc' = "TypeError"
  /\ UNCHANGED <<puzzle, heuristic, open_list, closed_list, expanded_nodes, pops, ret,
                 hamming_results, manhattan_results, solvable_out, mvars, svars>>

StoreNext ==
  \/ StoreIsSolvable
  \/ StoreBegin
  \/ StorePopDiscard
  \/ StorePopGoal
  \/ StorePopExpand
  \/ StoreExhaust
  \/ StoreRecordHamming
  \/ StoreRecordManhattan
  \/ StoreUnpackNone

SpecStore == StoreInit /\ [][StoreNext]_vars

(***************************************************************************)
(* Properties of the list objects (checked under SpecStore).               *)
(***************************************************************************)
\* C18: grids are never mutated in place.  No call of is_solvable, of a
\* heuristic, of generate_successors or of a_star changes a list that
\* existed before the call: the input grid, the goal, and every grid held by
\* a frontier node keep their rows and their cells, and while a_star runs
\* the value of every frontier node's grid is still the one its h was
\* computed from.
GridsNeverMutated ==
  [][/\ \A a \in 1 .. Len(objs) : a <= Len(objs') /\ objs'[a] = objs[a]
     /\ Deref(objs', env'.puzzle) = puzzle
     /\ Deref(objs', env'.goal_state) = get_goal_state_puzzle
     /\ pc' = "running"
          => \A i \in 1 .. Len(open_list') :
               open_list'[i].h = Heuristic(heuristic', Deref(objs', open_list'[i].puzzle),
                                           get_goal_state_puzzle)]_vars

\* the second a_star call on the same puzzle object is under way: the
\* candidate went through is_solvable and a whole Hamming search, grids
\* were expanded and the frontier holds grids built by earlier expansions
GridsNeverMutatedWitness ==
  /\ pc = "running"
  /\ heuristic = "manhattan"
  /\ pops >= 3
  /\ Len(open_list) >= 3
  /\ Len(objs) > 20

====
